---- MODULE Spec2Model ----
(***************************************************************************)
(* A model of the command handlers of the erold CLI:                       *)
(*   tech stack / tech deployment     (tech-info commands, manageStack and *)
(*                                     setDeployment)                      *)
(*   vault create / vault update      (src/commands/vault.js, createVault  *)
(*                                     and updateVault)                    *)
(* One behaviour is one invocation of the CLI: a command is started with   *)
(* its flags, runs up to each await (a prompt or an API call), and ends by *)
(* returning or by process.exit(1).                                        *)
(*                                                                         *)
(* Conventions.                                                            *)
(*   Undefined      the JavaScript value undefined of a string option      *)
(*   ""             the empty string (falsy, like undefined)               *)
(*   << >>          a variadic option that was not given (commander gives  *)
(*                  an array of at least one item when it is given), and   *)
(*                  a vault key that is undefined or '' (createVault only  *)
(*                  tests !key)                                            *)
(*   a vault key is a sequence of one-character strings                    *)
(***************************************************************************)
EXTENDS Integers, Sequences, FiniteSets, TLC

\* ------------------------------------------------------------------ bounds
\* at most this many item arguments on one `tech stack` command line
MaxArgs == 3
\* at most this many items in the stack the backend returns
MaxStored == 2
\* at most this many characters in a vault key typed by the user
MaxKeyLen == 2
\* at most this many inputs the key prompt refuses before one is accepted
MaxRejects == 1
\* at most this many characters in the text given to `tech commands --remove`
MaxIndexLen == 2
\* at most this many commands in the list the backend returns
MaxCommands == 3

\* ------------------------------------------------------------ input domains
Undefined == "<undefined>"

\* stack items the user names / the backend holds
Items == {"react", "vue", "svelte"}

\* the -c values tried for `tech stack`
CategoryInputs == {Undefined, "", "frontend", "backend", "bogus"}
\* the categories the fetched stack may hold
FetchedCategories == {"frontend", "backend"}

\* ------------------------------------------------------------ JS helpers
\* Array.prototype.includes
Includes(arr, x) == \E i \in 1..Len(arr) : arr[i] = x

\* truthiness of a string option
Truthy(s) == s # Undefined /\ s # ""

Range(s) == {s[i] : i \in 1..Len(s)}

SeqsUpTo(S, n) == UNION {[1..k -> S] : k \in 0..n}

\* ------------------------------------------------------------ tech-info
STACK_CATEGORIES == <<"frontend", "backend", "database", "languages", "tools", "other">>
PROVIDERS == <<"vercel", "aws", "gcp", "azure", "digitalocean", "heroku", "netlify",
               "railway", "render", "fly", "other">>

\* [...new Set(arr)]: the elements of arr in order of first occurrence
RECURSIVE Uniq(_)
Uniq(arr) ==
    IF arr = << >> THEN << >>
    ELSE LET front == Uniq(SubSeq(arr, 1, Len(arr) - 1))
             last  == arr[Len(arr)]
         IN  IF Includes(front, last) THEN front ELSE Append(front, last)

\* a --set that appends to what was there
SetItemsAppending(items, set) == items \o set

\* items = set
SetItems(items, set) == set

\* an --add that keeps duplicates
AddItemsNoDedup(items, add) == items \o add

\* items = [...new Set([...items, ...add])]
AddItems(items, add) == Uniq(items \o add)

\* a --remove with the test inverted
RemoveItemsKeepingListed(items, remove) == SelectSeq(items, LAMBDA item : Includes(remove, item))

\* items.filter(item => !remove.includes(item))
RemoveItems(items, remove) == SelectSeq(items, LAMBDA item : ~Includes(remove, item))

\* three independent ifs in place of the else-if chain
NewItemsComposed(items, set, add, remove) ==
    LET afterSet == IF Len(set) > 0 THEN SetItems(items, set) ELSE items
        afterAdd == IF Len(add) > 0 THEN AddItems(afterSet, add) ELSE afterSet
    IN  IF Len(remove) > 0 THEN RemoveItems(afterAdd, remove) ELSE afterAdd

\* the if / else if chain over set, add, remove
NewItems(items, set, add, remove) ==
    IF Len(set) > 0 THEN SetItems(items, set)
    ELSE IF Len(add) > 0 THEN AddItems(items, add)
    ELSE IF Len(remove) > 0 THEN RemoveItems(items, remove)
    ELSE items

\* info.stack || {}
CurrentStack(info) == IF info.hasStack THEN info.stack ELSE << >>

\* currentStack[category] || []
CurrentItems(currentStack, category) ==
    IF category \in DOMAIN currentStack THEN currentStack[category] ELSE << >>

\* a patch that carries the named category alone
StackPatchOnlyCategory(currentStack, category, items) == [c \in {category} |-> items]

\* { ...currentStack, [category]: items }
StackPatch(currentStack, category, items) ==
    [c \in (DOMAIN currentStack) \cup {category} |->
        IF c = category THEN items ELSE currentStack[c]]

\* ------------------------------------------------------------ state
VARIABLES
    pc,       \* where the handler stands: "start", the await it waits in, "done"
    cmd,      \* the command that was invoked
    opts,     \* its options, as commander hands them to the handler
    loc,      \* the handler's local variables
    calls,    \* the API calls issued so far, in order
    out,      \* what was printed so far, in order
    spinner,  \* TRUE while a spinner is running
    status,   \* "running", "returned" (the handler returned), "exit1", or
              \* "rejected" (the handler's promise rejected: an error escaped it)
    results,  \* how the API calls answered so far, in order: "ok" or "failed"
    backend,  \* what the backend stores for the project (used when two
              \* invocations run against it, << >> otherwise)
    inv       \* the state of each of two concurrent `tech stack` invocations
              \* (<< >> when a single invocation is followed)

vars == <<pc, cmd, opts, loc, calls, out, spinner, status, results, backend, inv>>

\* one printed line: output.error / output.success / console.log / ...
Ev(kind, msg, arg) == [kind |-> kind, msg |-> msg, arg |-> arg]

\* one API call
Call(op, body) == [op |-> op, body |-> body]

\* output.error(...) followed by a plain return
ErrorAndReturn(msg, arg) ==
    /\ out' = Append(out, Ev("error", msg, arg))
    /\ status' = "returned"
    /\ pc' = "done"

\* output.error(...); process.exit(1)
ExitWithError(msg, arg) ==
    /\ out' = Append(out, Ev("error", msg, arg))
    /\ status' = "exit1"
    /\ pc' = "done"

\* catch (err) { output.stopSpinner(false); output.error(err.message); process.exit(1); }
CatchAndExit ==
    /\ results' = Append(results, "failed")
    /\ spinner' = FALSE
    /\ out' = Append(out, Ev("error", "err.message", << >>))
    /\ status' = "exit1"
    /\ pc' = "done"

Init ==
    /\ pc = "start"
    /\ cmd = "none"
    /\ opts = << >>
    /\ loc = << >>
    /\ calls = << >>
    /\ out = << >>
    /\ spinner = FALSE
    /\ status = "running"
    /\ results = << >>
    /\ backend = << >>
    /\ inv = << >>

\* ------------------------------------------------------------ tech stack
\* --set, --add, --remove as commander parses them
StackOptions ==
    {o \in [category : CategoryInputs,
            set : SeqsUpTo(Items, MaxArgs),
            add : SeqsUpTo(Items, MaxArgs),
            remove : SeqsUpTo(Items, MaxArgs)] :
        Len(o.set) + Len(o.add) + Len(o.remove) <= MaxArgs}

RECURSIVE TotalLen(_, _)
TotalLen(f, D) ==
    IF D = {} THEN 0
    ELSE LET c == CHOOSE x \in D : TRUE IN Len(f[c]) + TotalLen(f, D \ {c})

\* the stack objects the backend may return
FetchedStacks ==
    UNION {{f \in [D -> SeqsUpTo(Items, MaxStored)] : TotalLen(f, D) <= MaxStored} :
            D \in SUBSET FetchedCategories}

\* the tech-info records the backend may return (stack may be missing)
FetchedInfos ==
    {[hasStack |-> TRUE, stack |-> s] : s \in FetchedStacks}
        \cup {[hasStack |-> FALSE, stack |-> << >>]}

\* manageStack up to its first await
ManageStackStart(o) ==
    /\ pc = "start"
    /\ UNCHANGED <<backend, inv>>
    /\ UNCHANGED results
    /\ cmd' = "stack"
    /\ opts' = o
    /\ IF ~Truthy(o.category)
       THEN /\ ExitWithError("Category required. Use -c with one of", STACK_CATEGORIES)
            /\ UNCHANGED <<loc, calls, spinner>>
       ELSE IF ~Includes(STACK_CATEGORIES, o.category)
       THEN /\ ExitWithError("Invalid category. Must be one of", STACK_CATEGORIES)
            /\ UNCHANGED <<loc, calls, spinner>>
       ELSE IF Len(o.add) = 0 /\ Len(o.remove) = 0 /\ Len(o.set) = 0
       THEN /\ ExitWithError("Specify --add, --remove, or --set with items", << >>)
            /\ UNCHANGED <<loc, calls, spinner>>
       ELSE /\ spinner' = TRUE
            /\ calls' = Append(calls, Call("techInfo.get", << >>))
            /\ pc' = "stack_get"
            /\ UNCHANGED <<loc, out, status>>

\* api.techInfo.get resolved: compute the items and issue the update
ManageStackGetReturns(info) ==
    /\ pc = "stack_get"
    /\ UNCHANGED <<backend, inv>>
    /\ results' = Append(results, "ok")
    /\ LET currentStack == CurrentStack(info)
           items == NewItems(CurrentItems(currentStack, opts.category),
                             opts.set, opts.add, opts.remove)
       IN  /\ loc' = [info |-> info, currentStack |-> currentStack, items |-> items]
           /\ calls' = Append(calls, Call("techInfo.update",
                          [stack |-> StackPatch(currentStack, opts.category, items)]))
    /\ pc' = "stack_update"
    /\ UNCHANGED <<cmd, opts, out, spinner, status>>

\* api.techInfo.get rejected and the update is issued all the same, on an
\* empty stack
ManageStackGetThrowsAndUpdates ==
    /\ pc = "stack_get"
    /\ UNCHANGED <<backend, inv>>
    /\ results' = Append(results, "failed")
    /\ LET items == NewItems(<< >>, opts.set, opts.add, opts.remove)
       IN  /\ loc' = [info |-> [hasStack |-> FALSE, stack |-> << >>],
                      currentStack |-> << >>, items |-> items]
           /\ calls' = Append(calls, Call("techInfo.update",
                          [stack |-> StackPatch(<< >>, opts.category, items)]))
    /\ pc' = "stack_update"
    /\ UNCHANGED <<cmd, opts, out, spinner, status>>

\* api.techInfo.get rejected
ManageStackGetThrows ==
    /\ pc = "stack_get"
    /\ UNCHANGED <<backend, inv>>
    /\ CatchAndExit
    /\ UNCHANGED <<cmd, opts, loc, calls>>

\* api.techInfo.update resolved
ManageStackUpdateReturns ==
    /\ pc = "stack_update"
    /\ UNCHANGED <<backend, inv>>
    /\ results' = Append(results, "ok")
    /\ spinner' = FALSE
    /\ out' = out \o <<Ev("spinner", "Stack updated", << >>),
                       Ev("log", opts.category, loc.items)>>
    /\ status' = "returned"
    /\ pc' = "done"
    /\ UNCHANGED <<cmd, opts, loc, calls>>

\* api.techInfo.update rejected and the call is issued once more
ManageStackUpdateThrowsAndRetries ==
    /\ pc = "stack_update"
    /\ UNCHANGED <<backend, inv>>
    /\ IF Len(calls) < 3
       THEN /\ results' = Append(results, "failed")
            /\ calls' = Append(calls, calls[Len(calls)])
            /\ UNCHANGED <<pc, cmd, opts, loc, out, spinner, status>>
       ELSE /\ CatchAndExit
            /\ UNCHANGED <<cmd, opts, loc, calls>>

\* api.techInfo.update rejected
ManageStackUpdateThrows ==
    /\ pc = "stack_update"
    /\ UNCHANGED <<backend, inv>>
    /\ CatchAndExit
    /\ UNCHANGED <<cmd, opts, loc, calls>>

ManageStack ==
    \/ pc = "start" /\ \E o \in StackOptions : ManageStackStart(o)
    \/ pc = "stack_get" /\ \E info \in FetchedInfos : ManageStackGetReturns(info)
    \/ ManageStackGetThrows
    \/ ManageStackUpdateReturns
    \/ ManageStackUpdateThrows

\* ------------------------------------------------------------ tech stack: properties
\* the update call of a `tech stack` invocation has been issued
StackUpdateIssued ==
    cmd = "stack" /\ Len(calls) >= 2 /\ calls[2].op = "techInfo.update"

\* the stack object that call submits
SubmittedStack == calls[2].body.stack

\* the list it submits for the named category
SubmittedList == SubmittedStack[opts.category]

\* the stack object the get returned ({} when the record has none)
FetchedStack == IF loc.info.hasStack THEN loc.info.stack ELSE << >>

\* the list the named category held in it ([] when it held none)
PriorList ==
    IF opts.category \in DOMAIN FetchedStack THEN FetchedStack[opts.category] ELSE << >>

NoDuplicates(L) == \A i, j \in 1..Len(L) : L[i] = L[j] => i = j

FirstIndex(L, x) == CHOOSE i \in 1..Len(L) : L[i] = x /\ \A j \in 1..(i - 1) : L[j] # x

\* L is prior united with new, duplicates removed: prior items in their order
\* of first occurrence, then the new items that prior does not hold
IsUnion(L, prior, new) ==
    /\ Range(L) = Range(prior) \cup Range(new)
    /\ NoDuplicates(L)
    /\ \A x, y \in Range(prior) :
          FirstIndex(prior, x) < FirstIndex(prior, y) => FirstIndex(L, x) < FirstIndex(L, y)
    /\ \A x \in Range(prior) : \A y \in Range(new) \ Range(prior) :
          FirstIndex(L, x) < FirstIndex(L, y)

\* L is prior without the positions whose item is in rem, order kept
IsDifference(L, prior, rem) ==
    LET kept == {i \in 1..Len(prior) : prior[i] \notin Range(rem)}
    IN  /\ Len(L) = Cardinality(kept)
        /\ \A i \in kept : L[Cardinality({j \in kept : j <= i})] = prior[i]

\* C1: with --set, a valid category and a successful get, the list submitted
\* for the named category is exactly the list given to --set, whatever the
\* category held before.
C1_SetReplacesList ==
    (StackUpdateIssued /\ Len(opts.set) > 0) =>
        /\ opts.category \in DOMAIN SubmittedStack
        /\ SubmittedList = opts.set

C1_Witness ==
    /\ StackUpdateIssued
    /\ Len(opts.set) > 0
    /\ Len(PriorList) > 0
    /\ Range(PriorList) \cap Range(opts.set) = {}

\* C2: with --add and no --set, the submitted list is the union of the prior
\* items and the new items without duplicates: every prior and every new item
\* occurs exactly once, prior items keep their order of first occurrence, and
\* the new items that were not present follow them.
C2_AddIsDedupUnion ==
    (StackUpdateIssued /\ Len(opts.set) = 0 /\ Len(opts.add) > 0) =>
        IsUnion(SubmittedList, PriorList, opts.add)

C2_Witness ==
    /\ StackUpdateIssued
    /\ Len(opts.set) = 0
    /\ Len(opts.add) > 0
    /\ Cardinality(Range(PriorList)) = 2
    /\ Range(opts.add) \cap Range(PriorList) # {}
    /\ Range(opts.add) \ Range(PriorList) # {}

\* C3: with --remove and neither --set nor --add, the submitted list is the
\* prior list without the items to remove, in the prior order; removing an
\* item that is absent changes nothing.
C3_RemoveIsDifference ==
    (StackUpdateIssued /\ Len(opts.set) = 0 /\ Len(opts.add) = 0 /\ Len(opts.remove) > 0) =>
        /\ IsDifference(SubmittedList, PriorList, opts.remove)
        /\ (Range(opts.remove) \cap Range(PriorList) = {} => SubmittedList = PriorList)

C3_Witness ==
    /\ StackUpdateIssued
    /\ Len(opts.set) = 0 /\ Len(opts.add) = 0 /\ Len(opts.remove) > 0
    /\ Range(opts.remove) \cap Range(PriorList) # {}
    /\ Range(PriorList) \ Range(opts.remove) # {}
    /\ Range(opts.remove) \ Range(PriorList) # {}

\* C4: for add, remove and set alike, the submitted stack object holds every
\* category of the fetched stack other than the named one with its list
\* unchanged; only the named category's list differs from what was fetched.
C4_OtherCategoriesUntouched ==
    StackUpdateIssued =>
        /\ DOMAIN SubmittedStack = (DOMAIN FetchedStack) \cup {opts.category}
        /\ \A c \in (DOMAIN FetchedStack) \ {opts.category} :
              SubmittedStack[c] = FetchedStack[c]

C4_Witness ==
    /\ StackUpdateIssued
    /\ \E c \in (DOMAIN FetchedStack) \ {opts.category} : Len(FetchedStack[c]) > 0
    /\ opts.category \in DOMAIN FetchedStack
    /\ SubmittedList # PriorList

\* C5: set, add and remove are mutually exclusive: when several of them are
\* given together the submitted list is the result of one of the given
\* operations on the fetched list, never of two applied in turn.
C5_OneOperationApplied ==
    StackUpdateIssued =>
        \/ Len(opts.set) > 0 /\ SubmittedList = opts.set
        \/ Len(opts.add) > 0 /\ IsUnion(SubmittedList, PriorList, opts.add)
        \/ Len(opts.remove) > 0 /\ IsDifference(SubmittedList, PriorList, opts.remove)

C5_Witness ==
    /\ StackUpdateIssued
    /\ Len(opts.set) > 0 /\ Len(opts.add) > 0 /\ Len(opts.remove) > 0
    /\ Len(PriorList) > 0
    /\ ~IsUnion(opts.set, PriorList, opts.add)
    /\ ~IsDifference(opts.set, PriorList, opts.remove)

\* ------------------------------------------------------------ tech deployment
\* the flag values tried for `tech deployment`
DeployOptions ==
    [provider : {Undefined, "", "aws", "bogus"},
     region : {Undefined, "eu-west-1"},
     productionUrl : {Undefined, "https://prod"},
     stagingUrl : {Undefined, "https://staging"},
     cicd : {Undefined, "github-actions"},
     prodBranch : {Undefined, "main"},
     stagingBranch : {Undefined, "develop"}]

\* { production?, staging? } of updates.urls and updates.branch
PairOf(production, staging) ==
    [k \in {k \in {"production", "staging"} :
                (k = "production" /\ Truthy(production)) \/ (k = "staging" /\ Truthy(staging))} |->
        IF k = "production" THEN production ELSE staging]

\* the updates object setDeployment builds from its flags
DeploymentUpdates(o) ==
    LET keys == {k \in {"provider", "region", "urls", "cicd", "branch"} :
                    \/ k = "provider" /\ Truthy(o.provider)
                    \/ k = "region" /\ Truthy(o.region)
                    \/ k = "urls" /\ (Truthy(o.productionUrl) \/ Truthy(o.stagingUrl))
                    \/ k = "cicd" /\ Truthy(o.cicd)
                    \/ k = "branch" /\ (Truthy(o.prodBranch) \/ Truthy(o.stagingBranch))}
    IN  [k \in keys |->
            CASE k = "provider" -> o.provider
              [] k = "region" -> o.region
              [] k = "urls" -> PairOf(o.productionUrl, o.stagingUrl)
              [] k = "cicd" -> o.cicd
              [] k = "branch" -> PairOf(o.prodBranch, o.stagingBranch)]

\* setDeployment up to its await
SetDeploymentStart(o) ==
    /\ pc = "start"
    /\ UNCHANGED <<backend, inv>>
    /\ UNCHANGED results
    /\ cmd' = "deployment"
    /\ opts' = o
    /\ IF Truthy(o.provider) /\ ~Includes(PROVIDERS, o.provider)
       THEN /\ ExitWithError("Invalid provider. Must be one of", PROVIDERS)
            /\ UNCHANGED <<loc, calls, spinner>>
       ELSE IF DOMAIN DeploymentUpdates(o) = {}
       THEN /\ ExitWithError("No updates provided. Use --provider, --region, --production-url, etc.", << >>)
            /\ UNCHANGED <<loc, calls, spinner>>
       ELSE /\ loc' = [updates |-> DeploymentUpdates(o)]
            /\ spinner' = TRUE
            /\ calls' = Append(calls, Call("techInfo.update",
                           [deployment |-> DeploymentUpdates(o)]))
            /\ pc' = "deploy_update"
            /\ UNCHANGED <<out, status>>

\* api.techInfo.update resolved
SetDeploymentUpdateReturns ==
    /\ pc = "deploy_update"
    /\ UNCHANGED <<backend, inv>>
    /\ results' = Append(results, "ok")
    /\ spinner' = FALSE
    /\ out' = out \o <<Ev("spinner", "Deployment info updated", << >>),
                       Ev("log", "updates", loc.updates)>>
    /\ status' = "returned"
    /\ pc' = "done"
    /\ UNCHANGED <<cmd, opts, loc, calls>>

\* api.techInfo.update rejected
SetDeploymentUpdateThrows ==
    /\ pc = "deploy_update"
    /\ UNCHANGED <<backend, inv>>
    /\ CatchAndExit
    /\ UNCHANGED <<cmd, opts, loc, calls>>

SetDeployment ==
    \/ pc = "start" /\ \E o \in DeployOptions : SetDeploymentStart(o)
    \/ SetDeploymentUpdateReturns
    \/ SetDeploymentUpdateThrows

\* ------------------------------------------------------------ vault
CATEGORIES == <<"database", "api", "cloud", "service", "credential", "other">>
ENVIRONMENTS == <<"all", "production", "staging", "development">>

\* the characters a key is typed from: a lowercase letter, an uppercase
\* letter, a space, a digit and a letter outside ASCII
KeyChars == {"d", "B", " ", "7", "ß"}

\* the keys tried (<< >>: no key, or the empty key)
Keys == SeqsUpTo(KeyChars, MaxKeyLen)

LowerLetters == <<"a", "b", "c", "d", "e", "f", "g", "h", "i", "j", "k", "l", "m",
                  "n", "o", "p", "q", "r", "s", "t", "u", "v", "w", "x", "y", "z">>
UpperLetters == <<"A", "B", "C", "D", "E", "F", "G", "H", "I", "J", "K", "L", "M",
                  "N", "O", "P", "Q", "R", "S", "T", "U", "V", "W", "X", "Y", "Z">>
Digits == {"0", "1", "2", "3", "4", "5", "6", "7", "8", "9"}

\* String.prototype.toUpperCase on one character
UpperChar(c) ==
    IF Includes(LowerLetters, c)
    THEN <<UpperLetters[CHOOSE i \in 1..Len(LowerLetters) : LowerLetters[i] = c]>>
    ELSE IF c = "ß" THEN <<"S", "S">>
    ELSE <<c>>

\* String.prototype.toUpperCase
RECURSIVE ToUpperCase(_)
ToUpperCase(s) == IF s = << >> THEN << >> ELSE UpperChar(Head(s)) \o ToUpperCase(Tail(s))

\* the character classes [A-Z] and [A-Z0-9_]
UpperClass == Range(UpperLetters)
KeyClass == UpperClass \cup Digits \cup {"_"}

\* a replace that drops the characters outside [A-Z0-9_]
ReplaceInvalidDropping(s) == SelectSeq(s, LAMBDA c : c \in KeyClass)

\* .replace(/[^A-Z0-9_]/g, '_')
ReplaceInvalid(s) == [i \in 1..Len(s) |-> IF s[i] \in KeyClass THEN s[i] ELSE "_"]

\* /^[A-Z][A-Z0-9_]*$/.test(s)
MatchesKeyPattern(s) ==
    /\ Len(s) >= 1
    /\ s[1] \in UpperClass
    /\ \A i \in 1..Len(s) : s[i] \in KeyClass

\* key.toUpperCase().replace(/[^A-Z0-9_]/g, '_'): the prompt's filter and the
\* formatting before submission
FormatKey(key) == ReplaceInvalid(ToUpperCase(key))

\* a validate that tests the input as typed
KeyValidateNoUpper(input) ==
    IF input = << >> THEN "Key is required"
    ELSE IF ~MatchesKeyPattern(input)
    THEN "Key must be uppercase with underscores (e.g., DATABASE_URL)"
    ELSE "true"

\* the key prompt's validate: "true" or the message it returns
KeyValidate(input) ==
    IF input = << >> THEN "Key is required"
    ELSE IF ~MatchesKeyPattern(ToUpperCase(input))
    THEN "Key must be uppercase with underscores (e.g., DATABASE_URL)"
    ELSE "true"

\* a || b on string options
Or(a, b) == IF Truthy(a) THEN a ELSE b

\* an entry that leaves the description undefined
EntryDataNoDefault(key, value, category, environment, description) ==
    [key |-> key, value |-> value, category |-> category,
     environment |-> environment, description |-> description]

\* entryData of createVault
EntryData(key, value, category, environment, description) ==
    [key |-> key, value |-> value, category |-> category,
     environment |-> environment, description |-> Or(description, "")]

\* the ids the backend may give a new entry
EntryIds == {"entry-1", "entry-2"}

\* the flag values tried for `vault create` (commander's defaults: category
\* 'other', environment 'all')
CreateOptions ==
    [key : Keys,
     value : {Undefined, "s3cret"},
     category : {"other", "database", "bogus"},
     environment : {"all", "production", "bogus"},
     description : {Undefined, "note"},
     interactive : BOOLEAN]

\* what the user may answer to the prompts
ValueAnswers == {"", "typed"}
CategoryAnswers == {"api", "other"}
EnvironmentAnswers == {"staging"}
DescriptionAnswers == {"", "typed note"}

\* createVault after the prompt (or without one): validate the category,
\* format the key, start the spinner and issue the create call
CreateVaultSubmit(key, value, category, environment, description) ==
    IF ~Includes(CATEGORIES, category)
    THEN /\ ExitWithError("Invalid category. Must be one of", CATEGORIES)
         /\ UNCHANGED <<calls, spinner>>
    ELSE /\ spinner' = TRUE
         /\ calls' = Append(calls, Call("vault.create",
                        EntryData(FormatKey(key), value, category, environment, description)))
         /\ pc' = "vc_create"
         /\ UNCHANGED <<out, status>>

\* createVault up to its first await
CreateVaultStart(o) ==
    /\ pc = "start"
    /\ UNCHANGED <<backend, inv>>
    /\ UNCHANGED results
    /\ cmd' = "vaultCreate"
    /\ opts' = o
    /\ IF o.interactive \/ Len(o.key) = 0 \/ ~Truthy(o.value)
       THEN /\ loc' = [askKey |-> Len(o.key) = 0, typedKey |-> << >>,
                       answeredKey |-> << >>, refused |-> 0, entry |-> << >>]
            /\ pc' = "vc_prompt"
            /\ UNCHANGED <<calls, out, spinner, status>>
       ELSE /\ loc' = [askKey |-> FALSE, typedKey |-> << >>,
                       answeredKey |-> << >>, refused |-> 0, entry |-> << >>]
            /\ CreateVaultSubmit(o.key, o.value, o.category, o.environment, o.description)

\* the value the key prompt validates: inquirer hands validate either the
\* input as typed or the filtered input, depending on its version
Validated(input, filterFirst) == IF filterFirst THEN FormatKey(input) ELSE input

\* the key prompt refuses the input typed, prints validate's message and
\* asks again (typedKey: the input typed last)
CreateVaultKeyRefused(input, filterFirst) ==
    /\ pc = "vc_prompt"
    /\ UNCHANGED <<backend, inv>>
    /\ UNCHANGED results
    /\ loc.askKey
    /\ loc.refused < MaxRejects
    /\ KeyValidate(Validated(input, filterFirst)) # "true"
    /\ out' = Append(out, Ev("prompt", KeyValidate(Validated(input, filterFirst)), << >>))
    /\ loc' = [loc EXCEPT !.refused = @ + 1, !.typedKey = input]
    /\ UNCHANGED <<pc, cmd, opts, calls, spinner, status>>

\* the key prompt accepts an input: the answer is the filtered input
CreateVaultKeyAccepted(input, filterFirst) ==
    /\ pc = "vc_prompt"
    /\ UNCHANGED <<backend, inv>>
    /\ UNCHANGED results
    /\ loc.askKey
    /\ KeyValidate(Validated(input, filterFirst)) = "true"
    /\ loc' = [loc EXCEPT !.askKey = FALSE, !.typedKey = input, !.answeredKey = FormatKey(input)]
    /\ UNCHANGED <<pc, cmd, opts, calls, out, spinner, status>>

\* inquirer.prompt resolved: the remaining questions are answered and
\* createVault runs on to its create call. The value question is asked only
\* when --value is missing and accepts a non-empty answer only; the category,
\* environment and description questions are asked only with --interactive
\* (an answer to a question that is not asked is fixed, it is never read).
CreateVaultPromptAnswered(valueAns, categoryAns, environmentAns, descriptionInput) ==
    /\ pc = "vc_prompt"
    /\ UNCHANGED <<backend, inv>>
    /\ UNCHANGED results
    /\ ~loc.askKey
    /\ IF Truthy(opts.value) THEN valueAns = "" ELSE Truthy(valueAns)
    /\ LET answers ==
               [key |-> loc.answeredKey,
                value |-> IF Truthy(opts.value) THEN Undefined ELSE valueAns,
                category |-> IF opts.interactive THEN categoryAns ELSE Undefined,
                environment |-> IF opts.interactive THEN environmentAns ELSE Undefined,
                description |->
                    IF ~opts.interactive THEN Undefined
                    ELSE IF descriptionInput = "" THEN Or(opts.description, "")
                    ELSE descriptionInput]
           key == IF Len(opts.key) > 0 THEN opts.key ELSE answers.key
       IN  /\ opts.interactive \/
                (categoryAns = "other" /\ environmentAns = "staging" /\ descriptionInput = "")
           /\ CreateVaultSubmit(key,
                                Or(opts.value, answers.value),
                                Or(answers.category, opts.category),
                                Or(answers.environment, opts.environment),
                                Or(answers.description, opts.description))
    /\ UNCHANGED <<cmd, opts, loc>>

\* api.vault.create resolved with the new entry
CreateVaultCreateReturns(id) ==
    /\ pc = "vc_create"
    /\ UNCHANGED <<backend, inv>>
    /\ results' = Append(results, "ok")
    /\ LET entryData == calls[Len(calls)].body
           entry == [id |-> id, key |-> entryData.key, category |-> entryData.category,
                     environment |-> entryData.environment]
       IN  /\ loc' = [loc EXCEPT !.entry = entry]
           /\ out' = out \o <<Ev("spinner", "Secret created", << >>),
                               Ev("success", "Created", entry.key),
                               Ev("log", "key", entry.key),
                               Ev("log", "Category", entry.category),
                               Ev("log", "Environment", entry.environment),
                               Ev("log", "ID", entry.id)>>
    /\ spinner' = FALSE
    /\ status' = "returned"
    /\ pc' = "done"
    /\ UNCHANGED <<cmd, opts, calls>>

\* api.vault.create rejected
CreateVaultCreateThrows ==
    /\ pc = "vc_create"
    /\ UNCHANGED <<backend, inv>>
    /\ CatchAndExit
    /\ UNCHANGED <<cmd, opts, loc, calls>>

CreateVault ==
    \/ pc = "start" /\ \E o \in CreateOptions : CreateVaultStart(o)
    \/ pc = "vc_prompt" /\
          \E input \in Keys, filterFirst \in BOOLEAN : CreateVaultKeyRefused(input, filterFirst)
    \/ pc = "vc_prompt" /\
          \E input \in Keys, filterFirst \in BOOLEAN : CreateVaultKeyAccepted(input, filterFirst)
    \/ pc = "vc_prompt" /\
          \E v \in ValueAnswers, c \in CategoryAnswers, e \in EnvironmentAnswers,
             d \in DescriptionAnswers : CreateVaultPromptAnswered(v, c, e, d)
    \/ pc = "vc_create" /\ \E id \in EntryIds : CreateVaultCreateReturns(id)
    \/ CreateVaultCreateThrows

\* ------------------------------------------------------------ vault update
\* the flag values tried for `vault update`
UpdateOptions ==
    [value : {Undefined, "", "new"},
     category : {Undefined, "", "database", "bogus"},
     description : {Undefined, "", "note"},
     environment : {Undefined, "", "staging", "bogus"}]

\* an updates object that takes the description only when it is non-empty
VaultUpdatesNonEmptyOnly(o) ==
    LET keys == {k \in {"value", "category", "description", "environment"} : Truthy(o[k])}
    IN  [k \in keys |-> o[k]]

\* the updates object updateVault builds from its flags
VaultUpdates(o) ==
    LET keys == {k \in {"value", "category", "description", "environment"} :
                    \/ k = "value" /\ Truthy(o.value)
                    \/ k = "category" /\ Truthy(o.category)
                    \/ k = "description" /\ o.description # Undefined
                    \/ k = "environment" /\ Truthy(o.environment)}
    IN  [k \in keys |-> o[k]]

\* updateVault up to its first await
UpdateVaultStart(o) ==
    /\ pc = "start"
    /\ UNCHANGED <<backend, inv>>
    /\ UNCHANGED results
    /\ cmd' = "vaultUpdate"
    /\ opts' = o
    /\ IF Truthy(o.category) /\ ~Includes(CATEGORIES, o.category)
       THEN /\ ExitWithError("Invalid category. Must be one of", CATEGORIES)
            /\ UNCHANGED <<loc, calls, spinner>>
       ELSE IF Truthy(o.environment) /\ ~Includes(ENVIRONMENTS, o.environment)
       THEN /\ ExitWithError("Invalid environment. Must be one of", ENVIRONMENTS)
            /\ UNCHANGED <<loc, calls, spinner>>
       ELSE IF DOMAIN VaultUpdates(o) = {}
       THEN /\ loc' = [updates |-> VaultUpdates(o)]
            /\ pc' = "vu_prompt"
            /\ UNCHANGED <<calls, out, spinner, status>>
       ELSE /\ loc' = [updates |-> VaultUpdates(o)]
            /\ spinner' = TRUE
            /\ calls' = Append(calls, Call("vault.update", VaultUpdates(o)))
            /\ pc' = "vu_update"
            /\ UNCHANGED <<out, status>>

\* the prompt for a new value resolved
UpdateVaultPromptAnswered(valueAns) ==
    /\ pc = "vu_prompt"
    /\ UNCHANGED <<backend, inv>>
    /\ UNCHANGED results
    /\ IF Truthy(valueAns)
       THEN /\ loc' = [updates |-> [k \in {"value"} |-> valueAns]]
            /\ spinner' = TRUE
            /\ calls' = Append(calls, Call("vault.update", [k \in {"value"} |-> valueAns]))
            /\ pc' = "vu_update"
            /\ UNCHANGED <<out, status>>
       ELSE /\ out' = Append(out, Ev("info", "No changes made", << >>))
            /\ status' = "returned"
            /\ pc' = "done"
            /\ UNCHANGED <<loc, calls, spinner>>
    /\ UNCHANGED <<cmd, opts>>

\* api.vault.update resolved
UpdateVaultUpdateReturns ==
    /\ pc = "vu_update"
    /\ UNCHANGED <<backend, inv>>
    /\ results' = Append(results, "ok")
    /\ spinner' = FALSE
    /\ out' = out \o <<Ev("spinner", "Secret updated", << >>),
                       Ev("log", "key", << >>),
                       Ev("log", "Updated", << >>)>>
    /\ status' = "returned"
    /\ pc' = "done"
    /\ UNCHANGED <<cmd, opts, loc, calls>>

\* api.vault.update rejected
UpdateVaultUpdateThrows ==
    /\ pc = "vu_update"
    /\ UNCHANGED <<backend, inv>>
    /\ CatchAndExit
    /\ UNCHANGED <<cmd, opts, loc, calls>>

UpdateVault ==
    \/ pc = "start" /\ \E o \in UpdateOptions : UpdateVaultStart(o)
    \/ pc = "vu_prompt" /\ \E v \in ValueAnswers : UpdateVaultPromptAnswered(v)
    \/ UpdateVaultUpdateReturns
    \/ UpdateVaultUpdateThrows

\* ------------------------------------------------------------ enumerations: properties
\* the invocation printed one error that lists `allowed` and exited with
\* status 1 without any API call
RefusedListing(allowed) ==
    /\ calls = << >>
    /\ status = "exit1"
    /\ Len(out) = 1
    /\ out[1].kind = "error"
    /\ out[1].arg = allowed

\* C6: a `tech stack` invocation whose category is not in STACK_CATEGORIES,
\* and a `tech deployment` invocation whose provider is not in PROVIDERS,
\* prints an error listing the allowed values and exits with status 1 having
\* issued no API call.
C6_InvalidCategoryOrProviderRefused ==
    /\ (cmd = "stack" /\ ~Includes(STACK_CATEGORIES, opts.category))
          => RefusedListing(STACK_CATEGORIES)
    /\ (cmd = "deployment" /\ opts.provider # Undefined /\ ~Includes(PROVIDERS, opts.provider))
          => RefusedListing(PROVIDERS)

\* C7: `vault create` and `vault update` given a category outside CATEGORIES
\* or an environment outside ENVIRONMENTS exit with status 1 and issue no API
\* call; no entry with an invalid category or environment is ever submitted.
\* (A flag counts as given when it is non-empty; in interactive mode the list
\* prompts replace the flags.)
C7_InvalidVaultEnumRefused ==
    /\ (/\ cmd = "vaultUpdate"
        /\ \/ Truthy(opts.category) /\ ~Includes(CATEGORIES, opts.category)
           \/ Truthy(opts.environment) /\ ~Includes(ENVIRONMENTS, opts.environment))
          => (calls = << >> /\ status = "exit1")
    /\ (/\ cmd = "vaultCreate"
        /\ ~opts.interactive
        /\ \/ Truthy(opts.category) /\ ~Includes(CATEGORIES, opts.category)
           \/ Truthy(opts.environment) /\ ~Includes(ENVIRONMENTS, opts.environment))
          => (calls = << >> /\ (pc = "done" => status = "exit1"))
    /\ \A i \in 1..Len(calls) :
          /\ calls[i].op = "vault.create" =>
                /\ Includes(CATEGORIES, calls[i].body.category)
                /\ Includes(ENVIRONMENTS, calls[i].body.environment)
          /\ calls[i].op = "vault.update" =>
                /\ "category" \in DOMAIN calls[i].body =>
                      Includes(CATEGORIES, calls[i].body.category)
                /\ "environment" \in DOMAIN calls[i].body =>
                      Includes(ENVIRONMENTS, calls[i].body.environment)

\* ------------------------------------------------------------ vault create: properties
\* the create call of a `vault create` invocation has been issued
CreateIssued ==
    cmd = "vaultCreate" /\ Len(calls) = 1 /\ calls[1].op = "vault.create"

\* the key the user gave: the --key flag, or else what was typed at the prompt
KeyInput == IF Len(opts.key) > 0 THEN opts.key ELSE loc.typedKey

\* one character upper-cased, then replaced by '_' unless it is in [A-Z0-9_]
NormalizedChar(c) ==
    IF c \in KeyClass THEN <<c>>
    ELSE IF Includes(LowerLetters, c) THEN UpperChar(c)
    ELSE IF c = "ß" THEN <<"S", "S">>
    ELSE <<"_">>

RECURSIVE NormalizedKey(_)
NormalizedKey(s) ==
    IF s = << >> THEN << >> ELSE NormalizedChar(Head(s)) \o NormalizedKey(Tail(s))

\* k matches ^[A-Z][A-Z0-9_]*$
WellFormedKey(k) ==
    /\ k # << >>
    /\ Head(k) \in UpperClass
    /\ Range(k) \subseteq KeyClass

\* C8: for every non-empty key input to `vault create`, the submitted key is
\* the input upper-cased with every character outside [A-Z0-9_] replaced by
\* '_', and it matches ^[A-Z][A-Z0-9_]*$.
C8_SubmittedKeyWellFormed ==
    CreateIssued =>
        /\ calls[1].body.key = NormalizedKey(KeyInput)
        /\ WellFormedKey(calls[1].body.key)

\* the key prompt has just refused what was typed
KeyRefused ==
    cmd = "vaultCreate" /\ pc = "vc_prompt" /\ loc.askKey /\ loc.refused > 0

\* C9 as stated: during `vault create` only an empty key is refused; a
\* non-empty key with lowercase letters or symbols is accepted on the --key
\* path and at the prompt alike, and its normalized form is submitted.
C9_OnlyEmptyKeyRefused ==
    /\ KeyRefused => loc.typedKey = << >>
    /\ (cmd = "vaultCreate" /\ Len(opts.key) > 0) => loc.refused = 0
    /\ CreateIssued => calls[1].body.key = NormalizedKey(KeyInput)

\* C9, amended: a non-empty key given with --key is never refused, whatever it
\* contains (the invocation ends without a create call only for an invalid
\* category); the key prompt refuses an input only if it is empty or its
\* upper-cased form does not match ^[A-Z][A-Z0-9_]*$, so lowercase letters
\* alone never cause a refusal; the normalized form of the accepted key is
\* what is submitted.
C9_KeyRefusedOnlyIfEmptyOrMalformed ==
    /\ KeyRefused =>
          \/ loc.typedKey = << >>
          \/ ~WellFormedKey(ToUpperCase(loc.typedKey))
    /\ (cmd = "vaultCreate" /\ Len(opts.key) > 0) =>
          /\ loc.refused = 0
          /\ \A i \in 1..Len(out) : out[i].kind # "prompt"
          /\ (pc = "done" /\ calls = << >>) => ~Includes(CATEGORIES, opts.category)
    /\ CreateIssued => calls[1].body.key = NormalizedKey(KeyInput)

C9_Witness ==
    /\ CreateIssued
    /\ Len(opts.key) = 0
    /\ loc.refused > 0
    /\ "d" \in Range(loc.typedKey)
    /\ calls[1].body.key # loc.typedKey

\* C10: a non-interactive `vault create` with key, value, a valid category and
\* a valid environment given as flags issues exactly one create call, whose
\* payload has the normalized key, the value, category and environment as
\* given and the description defaulting to ''; when the call succeeds the
\* returned entry's key and ID are printed and the command does not exit 1.
C10_FlagsCreateSubmitsOneEntry ==
    (/\ cmd = "vaultCreate"
     /\ ~opts.interactive
     /\ Len(opts.key) > 0
     /\ Truthy(opts.value)
     /\ Includes(CATEGORIES, opts.category)
     /\ Includes(ENVIRONMENTS, opts.environment)) =>
        /\ Len(calls) = 1
        /\ calls[1].op = "vault.create"
        /\ calls[1].body =
              [key |-> NormalizedKey(opts.key),
               value |-> opts.value,
               category |-> opts.category,
               environment |-> opts.environment,
               description |-> IF opts.description = Undefined THEN "" ELSE opts.description]
        /\ status = "exit1" => out[Len(out)] = Ev("error", "err.message", << >>)
        /\ (pc = "done" /\ status # "exit1") =>
              /\ status = "returned"
              /\ loc.entry.id \in EntryIds
              /\ \E i \in 1..Len(out) :
                    out[i].kind = "log" /\ out[i].msg = "key" /\ out[i].arg = loc.entry.key
              /\ \E i \in 1..Len(out) :
                    out[i].kind = "log" /\ out[i].msg = "ID" /\ out[i].arg = loc.entry.id

C10_Witness ==
    /\ CreateIssued
    /\ ~opts.interactive
    /\ opts.key = <<"d", " ">>
    /\ calls[1].body.key = <<"D", "_">>
    /\ opts.category = "database"
    /\ opts.environment = "production"
    /\ opts.description = Undefined
    /\ status = "returned"

\* ------------------------------------------------------------ tech commands
\* the characters tried in the text given to --remove
IndexChars == {"0", "1", "3", "-", "x"}

\* the texts tried for --remove <index>
IndexTexts == SeqsUpTo(IndexChars, MaxIndexLen)

DigitValue(c) ==
    CASE c = "0" -> 0 [] c = "1" -> 1 [] c = "2" -> 2 [] c = "3" -> 3 [] c = "4" -> 4
      [] c = "5" -> 5 [] c = "6" -> 6 [] c = "7" -> 7 [] c = "8" -> 8 [] c = "9" -> 9

\* the longest prefix of s made of decimal digits
RECURSIVE LeadingDigits(_)
LeadingDigits(s) ==
    IF Len(s) = 0 \/ s[1] \notin Digits THEN << >>
    ELSE <<s[1]>> \o LeadingDigits(Tail(s))

RECURSIVE DecimalValue(_)
DecimalValue(ds) ==
    IF Len(ds) = 0 THEN 0
    ELSE 10 * DecimalValue(SubSeq(ds, 1, Len(ds) - 1)) + DigitValue(ds[Len(ds)])

\* parseInt(s, 10): an optional sign, then the leading decimal digits; what
\* follows the digits is ignored; NaN when there is no digit
ParseInt(s) ==
    LET negative == Len(s) > 0 /\ s[1] = "-"
        ds == LeadingDigits(IF negative THEN Tail(s) ELSE s)
    IN  IF Len(ds) = 0 THEN [isNaN |-> TRUE, n |-> 0]
        ELSE [isNaN |-> FALSE,
              n |-> IF negative THEN 0 - DecimalValue(ds) ELSE DecimalValue(ds)]

\* isNaN(index) || index < 0 || index >= commands.length
InvalidIndex(index, commands) ==
    index.isNaN \/ index.n < 0 \/ index.n >= Len(commands)

\* updatedCommands = [...commands]; updatedCommands.splice(index, 1)
SpliceKeepingIndex(commands, index) ==
    SubSeq(commands, 1, index + 1) \o SubSeq(commands, index + 3, Len(commands))

Splice(commands, index) ==
    SubSeq(commands, 1, index) \o SubSeq(commands, index + 2, Len(commands))

\* the flags of `tech commands`; removeGiven is `remove !== undefined`
CommandsOptions ==
    {o \in [add : BOOLEAN, list : BOOLEAN, removeGiven : BOOLEAN, remove : IndexTexts] :
        o.removeGiven \/ o.remove = << >>}

\* the commands the backend may hold
CommandPool ==
    {[name |-> "Build", command |-> "npm run build", description |-> ""],
     [name |-> "Test", command |-> "npm test", description |-> "runs the tests"]}

\* the tech-info records the backend may return (commands may be missing)
FetchedCommandInfos ==
    {[hasCommands |-> TRUE, commands |-> c] : c \in SeqsUpTo(CommandPool, MaxCommands)}
        \cup {[hasCommands |-> FALSE, commands |-> << >>]}

\* info.commands || []
CurrentCommands(info) == IF info.hasCommands THEN info.commands ELSE << >>

\* what the user may answer to the prompts of --add
NameAnswers == {"", "Lint"}
CommandAnswers == {"", "npm run lint"}
CommandDescriptionAnswers == {"", "lints the code"}

\* manageCommands up to its first await: no spinner is started
ManageCommandsStart(o) ==
    /\ pc = "start"
    /\ UNCHANGED <<backend, inv>>
    /\ cmd' = "commands"
    /\ opts' = o
    /\ calls' = Append(calls, Call("techInfo.get", << >>))
    /\ pc' = "cmds_get"
    /\ UNCHANGED <<loc, out, spinner, status, results>>

\* api.techInfo.get resolved, and --list is looked at only when neither
\* --add nor --remove is given
ManageCommandsGetReturnsListLast(info) ==
    /\ pc = "cmds_get"
    /\ UNCHANGED <<backend, inv>>
    /\ results' = Append(results, "ok")
    /\ LET commands == CurrentCommands(info)
           index == ParseInt(opts.remove)
       IN  IF ~opts.add /\ ~opts.removeGiven
           THEN /\ loc' = [info |-> info, commands |-> commands]
                /\ out' = Append(out, Ev("log", "Commands", commands))
                /\ status' = "returned"
                /\ pc' = "done"
                /\ UNCHANGED <<calls, spinner>>
           ELSE IF opts.add
           THEN /\ loc' = [info |-> info, commands |-> commands]
                /\ pc' = "cmds_prompt"
                /\ UNCHANGED <<calls, out, spinner, status>>
           ELSE IF InvalidIndex(index, commands)
           THEN /\ loc' = [info |-> info, commands |-> commands, index |-> index]
                /\ ExitWithError("Invalid index. Must be between 0 and", <<Len(commands) - 1>>)
                /\ UNCHANGED <<calls, spinner>>
           ELSE /\ loc' = [info |-> info, commands |-> commands, index |-> index,
                           removed |-> commands[index.n + 1]]
                /\ spinner' = TRUE
                /\ calls' = Append(calls, Call("techInfo.update",
                               [commands |-> Splice(commands, index.n)]))
                /\ pc' = "cmds_update"
                /\ UNCHANGED <<out, status>>
    /\ UNCHANGED <<cmd, opts>>

\* api.techInfo.get resolved: list, or go on to the prompt of --add, or
\* check the index of --remove and issue the update
ManageCommandsGetReturns(info) ==
    /\ pc = "cmds_get"
    /\ UNCHANGED <<backend, inv>>
    /\ results' = Append(results, "ok")
    /\ LET commands == CurrentCommands(info)
           index == ParseInt(opts.remove)
       IN  IF opts.list \/ (~opts.add /\ ~opts.removeGiven)
           THEN /\ loc' = [info |-> info, commands |-> commands]
                /\ out' = Append(out, Ev("log", "Commands", commands))
                /\ status' = "returned"
                /\ pc' = "done"
                /\ UNCHANGED <<calls, spinner>>
           ELSE IF opts.add
           THEN /\ loc' = [info |-> info, commands |-> commands]
                /\ pc' = "cmds_prompt"
                /\ UNCHANGED <<calls, out, spinner, status>>
           ELSE IF InvalidIndex(index, commands)
           THEN /\ loc' = [info |-> info, commands |-> commands, index |-> index]
                /\ ExitWithError("Invalid index. Must be between 0 and", <<Len(commands) - 1>>)
                /\ UNCHANGED <<calls, spinner>>
           ELSE /\ loc' = [info |-> info, commands |-> commands, index |-> index,
                           removed |-> commands[index.n + 1]]
                /\ spinner' = TRUE
                /\ calls' = Append(calls, Call("techInfo.update",
                               [commands |-> Splice(commands, index.n)]))
                /\ pc' = "cmds_update"
                /\ UNCHANGED <<out, status>>
    /\ UNCHANGED <<cmd, opts>>

\* api.techInfo.get rejected: the catch of manageCommands stops no spinner
ManageCommandsGetThrows ==
    /\ pc = "cmds_get"
    /\ UNCHANGED <<backend, inv>>
    /\ results' = Append(results, "failed")
    /\ ExitWithError("err.message", << >>)
    /\ UNCHANGED <<cmd, opts, loc, calls, spinner>>

\* inquirer.prompt of --add resolved (name and command are accepted only
\* when non-empty): start the spinner and issue the update
ManageCommandsPromptAnswered(name, command, description) ==
    /\ pc = "cmds_prompt"
    /\ UNCHANGED <<backend, inv>>
    /\ Truthy(name) /\ Truthy(command)
    /\ LET newCommand == [name |-> name, command |-> command,
                          description |-> Or(description, "")]
       IN  /\ loc' = [info |-> loc.info, commands |-> loc.commands, newCommand |-> newCommand]
           /\ calls' = Append(calls, Call("techInfo.update",
                          [commands |-> Append(loc.commands, newCommand)]))
    /\ spinner' = TRUE
    /\ pc' = "cmds_update"
    /\ UNCHANGED <<cmd, opts, out, status, results>>

\* api.techInfo.update resolved
ManageCommandsUpdateReturns ==
    /\ pc = "cmds_update"
    /\ UNCHANGED <<backend, inv>>
    /\ results' = Append(results, "ok")
    /\ spinner' = FALSE
    /\ out' = IF opts.add
              THEN out \o <<Ev("spinner", "Command added", << >>),
                            Ev("log", "newCommand", <<loc.newCommand>>)>>
              ELSE out \o <<Ev("spinner", "Command removed", << >>),
                            Ev("log", "Removed", <<loc.removed>>)>>
    /\ status' = "returned"
    /\ pc' = "done"
    /\ UNCHANGED <<cmd, opts, loc, calls>>

\* api.techInfo.update rejected: the catch prints the error and exits, it
\* does not stop the spinner started before the call
ManageCommandsUpdateThrows ==
    /\ pc = "cmds_update"
    /\ UNCHANGED <<backend, inv>>
    /\ results' = Append(results, "failed")
    /\ ExitWithError("err.message", << >>)
    /\ UNCHANGED <<cmd, opts, loc, calls, spinner>>

ManageCommands ==
    \/ pc = "start" /\ \E o \in CommandsOptions : ManageCommandsStart(o)
    \/ pc = "cmds_get" /\ \E info \in FetchedCommandInfos : ManageCommandsGetReturns(info)
    \/ ManageCommandsGetThrows
    \/ pc = "cmds_prompt" /\
          \E n \in NameAnswers, c \in CommandAnswers, d \in CommandDescriptionAnswers :
              ManageCommandsPromptAnswered(n, c, d)
    \/ ManageCommandsUpdateReturns
    \/ ManageCommandsUpdateThrows

\* ------------------------------------------------------------ tech commands: properties
\* the text is a decimal numeral: an optional minus sign, then digits only
IntegerText(s) ==
    LET digits == IF Len(s) > 0 /\ s[1] = "-" THEN Tail(s) ELSE s
    IN  Len(digits) > 0 /\ \A k \in 1..Len(digits) : digits[k] \in Digits

\* the integer a decimal numeral denotes
IntegerOf(s) ==
    IF s[1] = "-" THEN 0 - DecimalValue(Tail(s)) ELSE DecimalValue(s)

\* the text is an integer i with 0 <= i < n
DenotesIndex(s, n) == IntegerText(s) /\ IntegerOf(s) >= 0 /\ IntegerOf(s) < n

\* `tech commands --remove <text>` without --add and --list, after its get returned
RemoveOnlyFetched ==
    /\ cmd = "commands"
    /\ opts.removeGiven /\ ~opts.add /\ ~opts.list
    /\ Len(results) >= 1 /\ results[1] = "ok"

UpdateCalls == {k \in 1..Len(calls) : calls[k].op = "techInfo.update"}

\* C11: when the text given to `tech commands --remove` is not an integer i
\* with 0 <= i < n, n the number of commands fetched (n = 0 included), the
\* invocation reports the invalid-index error with the range 0..n-1, exits
\* with status 1 and never calls update.
C11_InvalidIndexRefused ==
    (RemoveOnlyFetched /\ ~DenotesIndex(opts.remove, Len(loc.commands)))
        => /\ status = "exit1"
           /\ out = <<Ev("error", "Invalid index. Must be between 0 and",
                         <<Len(loc.commands) - 1>>)>>
           /\ UpdateCalls = {}

\* some line printed is a validation error (an output.error that does not
\* print a caught err.message)
ValidationErrors ==
    {k \in 1..Len(out) : out[k].kind = "error" /\ out[k].msg # "err.message"}

\* C12 as stated: whenever a validation error was reported, the invocation
\* has ended with status 1 and has made no network call at all, reads
\* included.
C12_ValidationBeforeAnyCall ==
    ValidationErrors # {} => status = "exit1" /\ calls = << >>

\* C12 amended: whenever a validation error was reported, the invocation
\* has ended with status 1 and has made no mutating call; it has made no
\* call at all, except that the invalid index of `tech commands --remove`
\* is reported after the one successful get that fetched the commands.
C12_ValidationBeforeAnyMutation ==
    \A k \in ValidationErrors :
        /\ status = "exit1"
        /\ IF out[k].msg = "Invalid index. Must be between 0 and"
           THEN /\ cmd = "commands"
                /\ Len(calls) = 1 /\ calls[1].op = "techInfo.get"
                /\ results = <<"ok">>
           ELSE calls = << >>

\* an out-of-range index was reported against a list of three commands
C12_Witness ==
    /\ cmd = "commands"
    /\ status = "exit1"
    /\ ValidationErrors # {}
    /\ Len(loc.commands) = 3
    /\ opts.remove = <<"3">>

\* ------------------------------------------------------------ tech show
\* showTechInfo up to its await
ShowTechInfoStart(o) ==
    /\ pc = "start"
    /\ UNCHANGED <<backend, inv>>
    /\ cmd' = "show"
    /\ opts' = o
    /\ spinner' = TRUE
    /\ calls' = Append(calls, Call("techInfo.get", << >>))
    /\ pc' = "show_get"
    /\ UNCHANGED <<loc, out, status, results>>

\* api.techInfo.get resolved: stop the spinner and print the record, as
\* JSON or section by section
ShowTechInfoGetReturns(info) ==
    /\ pc = "show_get"
    /\ UNCHANGED <<backend, inv>>
    /\ results' = Append(results, "ok")
    /\ spinner' = FALSE
    /\ loc' = [info |-> info]
    /\ out' = IF opts.json
              THEN out \o <<Ev("spinner", "", << >>), Ev("log", "JSON", << >>)>>
              ELSE out \o <<Ev("spinner", "", << >>), Ev("log", "Tech Stack", << >>),
                            Ev("log", "Deployment", << >>),
                            Ev("log", "Commands", CurrentCommands(info))>>
    /\ status' = "returned"
    /\ pc' = "done"
    /\ UNCHANGED <<cmd, opts, calls>>

\* api.techInfo.get rejected
ShowTechInfoGetThrows ==
    /\ pc = "show_get"
    /\ UNCHANGED <<backend, inv>>
    /\ CatchAndExit
    /\ UNCHANGED <<cmd, opts, loc, calls>>

ShowTechInfo ==
    \/ pc = "start" /\ \E o \in [json : BOOLEAN] : ShowTechInfoStart(o)
    \/ pc = "show_get" /\ \E info \in FetchedCommandInfos : ShowTechInfoGetReturns(info)
    \/ ShowTechInfoGetThrows

\* ------------------------------------------------------------ tech notes
\* the flags of `tech notes`
NotesOptions == [message : {Undefined, "", "deploy on friday"}, edit : BOOLEAN]

\* the notes the backend may hold (info.notes may be missing)
FetchedNotes == {Undefined, "old notes"}

\* what the user may leave in the editor, besides the text it opened with
EditorAnswers == {"", "edited notes"}

\* setNotes up to its first await: with --edit or without a message it
\* fetches the current notes, outside any try and with no spinner;
\* otherwise it starts the spinner and issues the update
SetNotesStart(o) ==
    /\ pc = "start"
    /\ UNCHANGED <<backend, inv>>
    /\ cmd' = "notes"
    /\ opts' = o
    /\ IF o.edit \/ ~Truthy(o.message)
       THEN /\ calls' = Append(calls, Call("techInfo.get", << >>))
            /\ pc' = "notes_get"
            /\ UNCHANGED <<loc, spinner>>
       ELSE /\ loc' = [notes |-> o.message]
            /\ spinner' = TRUE
            /\ calls' = Append(calls, Call("techInfo.update", [notes |-> o.message]))
            /\ pc' = "notes_update"
    /\ UNCHANGED <<out, status, results>>

\* api.techInfo.get resolved: the editor opens on info.notes || ''
SetNotesGetReturns(notes) ==
    /\ pc = "notes_get"
    /\ UNCHANGED <<backend, inv>>
    /\ results' = Append(results, "ok")
    /\ loc' = [info |-> [notes |-> notes], default |-> Or(notes, "")]
    /\ pc' = "notes_prompt"
    /\ UNCHANGED <<cmd, opts, calls, out, spinner, status>>

\* api.techInfo.get rejected: the await stands outside the try, so the
\* rejection leaves setNotes; nothing is printed by the handler
SetNotesGetThrows ==
    /\ pc = "notes_get"
    /\ UNCHANGED <<backend, inv>>
    /\ results' = Append(results, "failed")
    /\ status' = "rejected"
    /\ pc' = "done"
    /\ UNCHANGED <<cmd, opts, loc, calls, out, spinner>>

\* the editor was closed: start the spinner and issue the update
SetNotesPromptAnswered(text) ==
    /\ pc = "notes_prompt"
    /\ UNCHANGED <<backend, inv>>
    /\ loc' = [info |-> loc.info, default |-> loc.default, notes |-> text]
    /\ spinner' = TRUE
    /\ calls' = Append(calls, Call("techInfo.update", [notes |-> text]))
    /\ pc' = "notes_update"
    /\ UNCHANGED <<cmd, opts, out, status, results>>

\* api.techInfo.update resolved
SetNotesUpdateReturns ==
    /\ pc = "notes_update"
    /\ UNCHANGED <<backend, inv>>
    /\ results' = Append(results, "ok")
    /\ spinner' = FALSE
    /\ out' = out \o <<Ev("spinner", "Notes updated", << >>), Ev("log", loc.notes, << >>)>>
    /\ status' = "returned"
    /\ pc' = "done"
    /\ UNCHANGED <<cmd, opts, loc, calls>>

\* api.techInfo.update rejected
SetNotesUpdateThrows ==
    /\ pc = "notes_update"
    /\ UNCHANGED <<backend, inv>>
    /\ CatchAndExit
    /\ UNCHANGED <<cmd, opts, loc, calls>>

SetNotes ==
    \/ pc = "start" /\ \E o \in NotesOptions : SetNotesStart(o)
    \/ pc = "notes_get" /\ \E notes \in FetchedNotes : SetNotesGetReturns(notes)
    \/ SetNotesGetThrows
    \/ pc = "notes_prompt" /\
          \E text \in EditorAnswers \cup {loc.default} : SetNotesPromptAnswered(text)
    \/ SetNotesUpdateReturns
    \/ SetNotesUpdateThrows

\* ------------------------------------------------------------ vault list
\* the entries the backend may hold
StoredEntries ==
    <<[id |-> "entry-1", key |-> <<"D", "B">>, category |-> "database",
       environment |-> "production", description |-> "main database", value |-> "s3cret"],
      [id |-> "entry-2", key |-> <<"B", "7">>, category |-> "api",
       environment |-> "all", description |-> "", value |-> "t0ken"]>>

\* what api.vault.list may resolve with
ListedEntries == {SubSeq(StoredEntries, 1, n) : n \in 0..Len(StoredEntries)}

\* entries.filter(e => e.category === options.category), when a category is given
Filtered(entries, category) ==
    IF Truthy(category)
    THEN SelectSeq(entries, LAMBDA e : e.category = category)
    ELSE entries

\* listVault up to its await
ListVaultStart(o) ==
    /\ pc = "start"
    /\ UNCHANGED <<backend, inv>>
    /\ cmd' = "vaultList"
    /\ opts' = o
    /\ spinner' = TRUE
    /\ calls' = Append(calls, Call("vault.list", << >>))
    /\ pc' = "vl_list"
    /\ UNCHANGED <<loc, out, status, results>>

\* api.vault.list resolved
ListVaultListReturns(entries) ==
    /\ pc = "vl_list"
    /\ UNCHANGED <<backend, inv>>
    /\ results' = Append(results, "ok")
    /\ spinner' = FALSE
    /\ loc' = [entries |-> entries]
    /\ out' = IF Len(entries) = 0
              THEN out \o <<Ev("spinner", "", << >>),
                            Ev("info", "No vault entries found", << >>)>>
              ELSE out \o <<Ev("spinner", "", << >>),
                            Ev("log", "table", Filtered(entries, opts.category)),
                            Ev("muted", "Showing", <<Len(Filtered(entries, opts.category))>>)>>
    /\ status' = "returned"
    /\ pc' = "done"
    /\ UNCHANGED <<cmd, opts, calls>>

\* api.vault.list rejected
ListVaultListThrows ==
    /\ pc = "vl_list"
    /\ UNCHANGED <<backend, inv>>
    /\ CatchAndExit
    /\ UNCHANGED <<cmd, opts, loc, calls>>

ListVault ==
    \/ pc = "start" /\
          \E o \in [category : {Undefined, "", "database", "bogus"}] : ListVaultStart(o)
    \/ pc = "vl_list" /\ \E entries \in ListedEntries : ListVaultListReturns(entries)
    \/ ListVaultListThrows

\* ------------------------------------------------------------ vault show
\* process.platform
Platforms == {"darwin", "linux", "win32"}

\* what showVault prints once the entry arrived and the spinner was stopped;
\* copyFails: importing child_process or running the clipboard tool throws
ShowVaultLinesAuditInTry(entry, copy, platform, copyFails) ==
    <<Ev("log", "key", entry.key),
      Ev("log", "Category", <<entry.category>>),
      Ev("log", "Environment", <<entry.environment>>)>>
    \o (IF Truthy(entry.description)
        THEN <<Ev("log", "Description", <<entry.description>>)>> ELSE << >>)
    \o <<Ev("log", "Value:", <<entry.value>>)>>
    \o (IF ~copy THEN <<Ev("warn", "This access has been logged for security audit.", << >>)>>
        ELSE IF copyFails THEN <<Ev("warn", "Could not copy to clipboard", << >>)>>
        ELSE IF platform \in {"darwin", "linux"}
        THEN <<Ev("success", "Value copied to clipboard", << >>),
               Ev("warn", "This access has been logged for security audit.", << >>)>>
        ELSE <<Ev("warn", "Clipboard copy not supported on this platform", << >>),
               Ev("warn", "This access has been logged for security audit.", << >>)>>)

ShowVaultLines(entry, copy, platform, copyFails) ==
    <<Ev("log", "key", entry.key),
      Ev("log", "Category", <<entry.category>>),
      Ev("log", "Environment", <<entry.environment>>)>>
    \o (IF Truthy(entry.description)
        THEN <<Ev("log", "Description", <<entry.description>>)>> ELSE << >>)
    \o <<Ev("log", "Value:", <<entry.value>>)>>
    \o (IF ~copy THEN << >>
        ELSE IF copyFails THEN <<Ev("warn", "Could not copy to clipboard", << >>)>>
        ELSE IF platform \in {"darwin", "linux"}
        THEN <<Ev("success", "Value copied to clipboard", << >>)>>
        ELSE <<Ev("warn", "Clipboard copy not supported on this platform", << >>)>>)
    \o <<Ev("warn", "This access has been logged for security audit.", << >>)>>

\* showVault up to its await
ShowVaultStart(o) ==
    /\ pc = "start"
    /\ UNCHANGED <<backend, inv>>
    /\ cmd' = "vaultShow"
    /\ opts' = o
    /\ spinner' = TRUE
    /\ calls' = Append(calls, Call("vault.get", << >>))
    /\ pc' = "vs_get"
    /\ UNCHANGED <<loc, out, status, results>>

\* api.vault.get resolved: print the entry and its value, copy the value
\* when asked to, print the audit warning
ShowVaultGetReturns(entry, platform, copyFails) ==
    /\ pc = "vs_get"
    /\ UNCHANGED <<backend, inv>>
    /\ results' = Append(results, "ok")
    /\ spinner' = FALSE
    /\ loc' = [entry |-> entry, platform |-> platform, copyFails |-> copyFails]
    /\ out' = out \o <<Ev("spinner", "", << >>)>>
                  \o ShowVaultLines(entry, opts.copy, platform, copyFails)
    /\ status' = "returned"
    /\ pc' = "done"
    /\ UNCHANGED <<cmd, opts, calls>>

\* api.vault.get rejected
ShowVaultGetThrows ==
    /\ pc = "vs_get"
    /\ UNCHANGED <<backend, inv>>
    /\ CatchAndExit
    /\ UNCHANGED <<cmd, opts, loc, calls>>

ShowVault ==
    \/ pc = "start" /\ \E o \in [copy : BOOLEAN] : ShowVaultStart(o)
    \/ pc = "vs_get" /\
          \E entry \in Range(StoredEntries), platform \in Platforms, copyFails \in BOOLEAN :
              ShowVaultGetReturns(entry, platform, copyFails)
    \/ ShowVaultGetThrows

\* ------------------------------------------------------------ vault delete
\* deleteVault up to its first await: without --force it asks first
DeleteVaultStart(o) ==
    /\ pc = "start"
    /\ UNCHANGED <<backend, inv>>
    /\ cmd' = "vaultDelete"
    /\ opts' = o
    /\ IF ~o.force
       THEN /\ pc' = "vd_confirm"
            /\ UNCHANGED <<calls, spinner>>
       ELSE /\ spinner' = TRUE
            /\ calls' = Append(calls, Call("vault.delete", << >>))
            /\ pc' = "vd_delete"
    /\ UNCHANGED <<loc, out, status, results>>

\* the confirmation was answered and its answer is not read
DeleteVaultConfirmIgnored(delete) ==
    /\ pc = "vd_confirm"
    /\ UNCHANGED <<backend, inv>>
    /\ loc' = [confirm |-> [delete |-> delete]]
    /\ spinner' = TRUE
    /\ calls' = Append(calls, Call("vault.delete", << >>))
    /\ pc' = "vd_delete"
    /\ UNCHANGED <<cmd, opts, out, status, results>>

\* the confirmation was answered (Enter alone answers the default, false)
DeleteVaultConfirmAnswered(delete) ==
    /\ pc = "vd_confirm"
    /\ UNCHANGED <<backend, inv>>
    /\ loc' = [confirm |-> [delete |-> delete]]
    /\ IF ~delete
       THEN /\ out' = Append(out, Ev("info", "Cancelled", << >>))
            /\ status' = "returned"
            /\ pc' = "done"
            /\ UNCHANGED <<calls, spinner>>
       ELSE /\ spinner' = TRUE
            /\ calls' = Append(calls, Call("vault.delete", << >>))
            /\ pc' = "vd_delete"
            /\ UNCHANGED <<out, status>>
    /\ UNCHANGED <<cmd, opts, results>>

\* api.vault.delete resolved
DeleteVaultDeleteReturns ==
    /\ pc = "vd_delete"
    /\ UNCHANGED <<backend, inv>>
    /\ results' = Append(results, "ok")
    /\ spinner' = FALSE
    /\ out' = Append(out, Ev("spinner", "Secret deleted", << >>))
    /\ status' = "returned"
    /\ pc' = "done"
    /\ UNCHANGED <<cmd, opts, loc, calls>>

\* api.vault.delete rejected
DeleteVaultDeleteThrows ==
    /\ pc = "vd_delete"
    /\ UNCHANGED <<backend, inv>>
    /\ CatchAndExit
    /\ UNCHANGED <<cmd, opts, loc, calls>>

DeleteVault ==
    \/ pc = "start" /\ \E o \in [force : BOOLEAN] : DeleteVaultStart(o)
    \/ pc = "vd_confirm" /\ \E delete \in BOOLEAN : DeleteVaultConfirmAnswered(delete)
    \/ DeleteVaultDeleteReturns
    \/ DeleteVaultDeleteThrows

\* ------------------------------------------------------------ handlers: properties
\* some API call of the invocation failed
SomeCallFailed == \E k \in 1..Len(results) : results[k] = "failed"

\* C13: in every handler the failure of an API call is caught at the
\* handler's boundary: the handler prints the error and exits with status 1;
\* no failure leaves the handler as a rejection.
C13_ApiFailureCaught ==
    SomeCallFailed =>
        /\ status = "exit1"
        /\ Len(out) > 0
        /\ out[Len(out)] = Ev("error", "err.message", << >>)

\* C14: when the invocation has ended no spinner is still running: a
\* spinner that was started is stopped before the handler returns, prints
\* an error and exits, or fails.
C14_NoSpinnerAtEnd ==
    status # "running" => spinner = FALSE

\* ------------------------------------------------------------ vault delete: properties
\* the delete call of a `vault delete` invocation has been issued
DeleteIssued == \E k \in 1..Len(calls) : calls[k].op = "vault.delete"

\* the confirmation of a `vault delete` without --force was answered
ConfirmAnswered == cmd = "vaultDelete" /\ ~opts.force /\ pc \in {"vd_delete", "done"}

\* C15: `vault delete` issues the delete call only with --force or after
\* the user answered yes; without --force a confirmation answered no (the
\* default) ends with 'Cancelled', no API call, and no exit 1.
C15_DeleteOnlyIfForcedOrConfirmed ==
    cmd = "vaultDelete" =>
        /\ DeleteIssued => (opts.force \/ (ConfirmAnswered /\ loc.confirm.delete))
        /\ (ConfirmAnswered /\ ~loc.confirm.delete) =>
              /\ out = <<Ev("info", "Cancelled", << >>)>>
              /\ calls = << >>
              /\ status = "returned"

\* a confirmation answered no ended the invocation
C15_Witness ==
    /\ ConfirmAnswered
    /\ ~loc.confirm.delete
    /\ pc = "done"

\* ------------------------------------------------------------ vault show: properties
\* the positions of the printed lines that display the secret value
ValueShown == {k \in 1..Len(out) : out[k].kind = "log" /\ out[k].msg = "Value:"}

AuditWarning == Ev("warn", "This access has been logged for security audit.", << >>)

\* C16: every `vault show` issues exactly one call, a get, before any value
\* is displayed; the value displayed is the one that get returned; wherever
\* the value was displayed the audit warning is printed after it, last,
\* whether or not --copy was given and whether or not the copy worked; a
\* failed copy never makes the invocation exit with status 1.
C16_ShowGetsOnceAndWarns ==
    cmd = "vaultShow" =>
        /\ Len(calls) = 1 /\ calls[1].op = "vault.get"
        /\ \A k \in ValueShown :
              /\ results = <<"ok">>
              /\ out[k].arg = <<loc.entry.value>>
              /\ k < Len(out)
              /\ out[Len(out)] = AuditWarning
              /\ status = "returned"
        /\ status = "exit1" => (results = <<"failed">> /\ ValueShown = {})

\* the value was displayed, --copy was given and the copy failed
C16_Witness ==
    /\ cmd = "vaultShow"
    /\ ValueShown # {}
    /\ opts.copy
    /\ loc.copyFails
    /\ \E k \in 1..Len(out) : out[k].msg = "Could not copy to clipboard"

\* ------------------------------------------------------------ API calls: properties
\* the operations that change what the backend stores
MutatingOps == {"techInfo.update", "vault.create", "vault.update", "vault.delete"}

MutatingCalls == {k \in 1..Len(calls) : calls[k].op \in MutatingOps}

\* C17: within one invocation the API calls are strictly sequential (a call
\* is issued only when every earlier call was answered), at most one of
\* them is mutating, and once a call has failed no further call is issued
\* (so no call is ever issued again after it failed).
C17_SequentialOneMutationNoRetry ==
    /\ Len(calls) - Len(results) \in {0, 1}
    /\ Cardinality(MutatingCalls) <= 1
    /\ \A k \in 1..Len(results) : results[k] = "failed" => k = Len(calls)

\* a read succeeded, the mutating call after it failed, the invocation ended
C17_Witness ==
    /\ results = <<"ok", "failed">>
    /\ Len(calls) = 2
    /\ MutatingCalls = {2}
    /\ pc = "done"

\* ------------------------------------------------------------ tech commands: properties (2)
\* the commands the get of `tech commands` returned ([] when the record has none)
FetchedCommands == IF loc.info.hasCommands THEN loc.info.commands ELSE << >>

\* L is F with position i (counted from 0) removed, order kept
IsWithoutPosition(L, F, i) ==
    /\ Len(L) = Len(F) - 1
    /\ \A k \in 1..Len(L) : L[k] = IF k <= i THEN F[k] ELSE F[k + 1]

\* C18: `tech commands --remove i` with 0 <= i < n and neither --list nor
\* --add issues, after its get, exactly one update, and the list it submits
\* is the fetched list with position i alone removed: n - 1 commands, order
\* kept.
C18_RemoveDropsOnlyPosition ==
    (RemoveOnlyFetched /\ DenotesIndex(opts.remove, Len(FetchedCommands))) =>
        /\ Len(calls) = 2
        /\ calls[2].op = "techInfo.update"
        /\ IsWithoutPosition(calls[2].body.commands, FetchedCommands, IntegerOf(opts.remove))

\* the middle one of three fetched commands was removed
C18_Witness ==
    /\ RemoveOnlyFetched
    /\ opts.remove = <<"1">>
    /\ Len(FetchedCommands) = 3
    /\ FetchedCommands[1] # FetchedCommands[2]
    /\ FetchedCommands[2] # FetchedCommands[3]
    /\ status = "returned"

\* ------------------------------------------------------------ vault update: properties
\* the fields the flags of `vault update` supply: value, category and
\* environment when non-empty, description whenever given
SuppliedFields ==
    {f \in {"value", "category", "environment"} : opts[f] # Undefined /\ opts[f] # ""}
        \cup {f \in {"description"} : opts[f] # Undefined}

VaultUpdateCalls == {k \in 1..Len(calls) : calls[k].op = "vault.update"}

NoChangesMade == Ev("info", "No changes made", << >>)

\* C19: the patch `vault update` submits holds exactly the supplied fields
\* with the values given; when the flags supply no field the command
\* prompts for a value and submits that value alone; when the prompted
\* value is empty it reports 'No changes made', makes no API call and does
\* not exit with status 1.
C19_PatchIsSuppliedFields ==
    cmd = "vaultUpdate" =>
        /\ \A k \in VaultUpdateCalls :
              IF SuppliedFields # {}
              THEN /\ DOMAIN calls[k].body = SuppliedFields
                   /\ \A f \in SuppliedFields : calls[k].body[f] = opts[f]
              ELSE /\ DOMAIN calls[k].body = {"value"}
                   /\ calls[k].body.value \notin {Undefined, ""}
        /\ (SuppliedFields = {} /\ pc # "vu_prompt") =>
              \/ VaultUpdateCalls # {}
              \/ out = <<NoChangesMade>>
        /\ (\E k \in 1..Len(out) : out[k] = NoChangesMade) =>
              /\ SuppliedFields = {}
              /\ calls = << >>
              /\ status = "returned"

\* an empty description, given with a new value, was submitted
C19_Witness ==
    /\ cmd = "vaultUpdate"
    /\ opts.description = ""
    /\ opts.value = "new"
    /\ VaultUpdateCalls = {1}
    /\ status = "returned"

\* ------------------------------------------------------------ get before update: properties
\* C20: in `tech stack` and `tech commands` an update is issued only as the
\* second call, after the invocation's get returned successfully, and what
\* it submits is computed from that get's response: the other categories
\* and the kept items of the stack, the kept or extended list of commands;
\* when the get fails no update is issued and the invocation exits with
\* status 1.
C20_UpdateFromFetched ==
    cmd \in {"stack", "commands"} =>
        /\ \A k \in UpdateCalls :
              /\ k = 2
              /\ calls[1].op = "techInfo.get"
              /\ results[1] = "ok"
        /\ (cmd = "stack" /\ UpdateCalls # {}) =>
              /\ \A c \in DOMAIN FetchedStack \ {opts.category} :
                    SubmittedStack[c] = FetchedStack[c]
              /\ Range(SubmittedList) \subseteq
                    Range(PriorList) \cup Range(opts.set) \cup Range(opts.add)
              /\ Len(opts.set) = 0 =>
                    Range(PriorList) \ Range(opts.remove) \subseteq Range(SubmittedList)
        /\ (cmd = "commands" /\ UpdateCalls # {}) =>
              LET L == calls[2].body.commands
                  F == FetchedCommands
              IN  IF opts.add
                  THEN Len(L) = Len(F) + 1 /\ SubSeq(L, 1, Len(F)) = F
                  ELSE \E i \in 0..(Len(F) - 1) : IsWithoutPosition(L, F, i)
        /\ (Len(results) >= 1 /\ results[1] = "failed") =>
              /\ UpdateCalls = {}
              /\ status = "exit1"

\* a command was appended to the two commands the get returned
C20_Witness ==
    /\ cmd = "commands"
    /\ opts.add
    /\ UpdateCalls = {2}
    /\ Len(FetchedCommands) = 2
    /\ status = "returned"

\* ------------------------------------------------------------ tech commands: properties (3)
\* the flags put `tech commands` in list mode
ListModeAsked == opts.list \/ (~opts.add /\ ~opts.removeGiven)

\* C22: `tech commands` in list mode (--list given, even with --add or
\* --remove, or neither --add nor --remove given) issues exactly one call, a
\* get, and no update; every `tech commands` invocation issues at most one
\* update; with --add and --remove together only the add is performed.
C22_ListModeNeverMutates ==
    cmd = "commands" =>
        /\ ListModeAsked =>
              /\ Len(calls) = 1
              /\ calls[1].op = "techInfo.get"
              /\ pc \in {"cmds_get", "done"}
        /\ Cardinality(UpdateCalls) <= 1
        /\ (opts.add /\ opts.removeGiven /\ UpdateCalls # {}) =>
              /\ Len(calls[2].body.commands) = Len(FetchedCommands) + 1
              /\ SubSeq(calls[2].body.commands, 1, Len(FetchedCommands)) = FetchedCommands

\* --list was given together with --add and --remove, and the list was printed
C22_Witness ==
    /\ cmd = "commands"
    /\ opts.list /\ opts.add /\ opts.removeGiven
    /\ status = "returned"
    /\ Len(FetchedCommands) >= 1

\* ------------------------------------------------------------ vault key: properties
\* the ASCII characters among those tried
AsciiChars == Range(LowerLetters) \cup UpperClass \cup Digits \cup {" ", "_"}

IsAscii(k) == Range(k) \subseteq AsciiChars

\* C23: key normalization is idempotent and, over ASCII inputs,
\* length-preserving: for the key given to `vault create` with --key or
\* typed at the prompt, normalizing the normalized key changes nothing and
\* the normalized key is as long as the input; so the key submitted after
\* the prompt's filter and the normalization before submission is the input
\* normalized once.
C23_NormalizationIdempotent ==
    cmd = "vaultCreate" =>
        /\ \A k \in {opts.key, loc.typedKey} :
              IsAscii(k) =>
                  /\ FormatKey(FormatKey(k)) = FormatKey(k)
                  /\ Len(FormatKey(k)) = Len(k)
        /\ (CreateIssued /\ Len(opts.key) = 0 /\ IsAscii(loc.typedKey)) =>
              /\ loc.answeredKey = FormatKey(loc.typedKey)
              /\ calls[1].body.key = FormatKey(loc.typedKey)

\* a typed key with a lowercase letter and a space was filtered, then
\* normalized again and submitted
C23_Witness ==
    /\ CreateIssued
    /\ Len(opts.key) = 0
    /\ loc.typedKey = <<"d", " ">>
    /\ calls[1].body.key = <<"D", "_">>

\* ------------------------------------------------------------ two concurrent tech stack invocations
\* two processes run `tech stack` against the same project
Invocations == {1, 2}

\* the flags tried for each of them: a category the backend knows and at
\* most one item, given to one of --set, --add, --remove
ConcurrentOptions ==
    {o \in [category : FetchedCategories,
            set : SeqsUpTo(Items, 1),
            add : SeqsUpTo(Items, 1),
            remove : SeqsUpTo(Items, 1)] :
        Len(o.set) + Len(o.add) + Len(o.remove) <= 1}

\* the backend applies the stack object of an update either by replacing
\* the stored stack object with it, or key by key (a JSON merge patch, where
\* a list replaces the stored list of the same key)
ApplyPatch(stored, patch, deepMerge) ==
    IF deepMerge
    THEN [c \in (DOMAIN stored) \cup (DOMAIN patch) |->
              IF c \in DOMAIN patch THEN patch[c] ELSE stored[c]]
    ELSE patch

\* the backend holds some stack and has applied no update yet; both
\* invocations are about to start
InitConcurrent ==
    /\ pc = "start"
    /\ cmd = "none"
    /\ opts = << >>
    /\ loc = << >>
    /\ calls = << >>
    /\ out = << >>
    /\ spinner = FALSE
    /\ status = "running"
    /\ results = << >>
    /\ backend \in [stack : FetchedStacks, deepMerge : BOOLEAN, writes : {0}]
    /\ inv = [i \in Invocations |->
                 [pc |-> "start", status |-> "running", opts |-> << >>,
                  currentStack |-> << >>, items |-> << >>, submitted |-> << >>,
                  readAt |-> 0, wroteAt |-> 0]]

\* manageStack of invocation i up to its first await
StackInvocationStart(i, o) ==
    /\ inv[i].pc = "start"
    /\ IF \/ ~Truthy(o.category)
          \/ ~Includes(STACK_CATEGORIES, o.category)
          \/ Len(o.add) = 0 /\ Len(o.remove) = 0 /\ Len(o.set) = 0
       THEN inv' = [inv EXCEPT ![i].opts = o, ![i].pc = "done", ![i].status = "exit1"]
       ELSE inv' = [inv EXCEPT ![i].opts = o, ![i].pc = "stack_get"]
    /\ UNCHANGED <<pc, cmd, opts, loc, calls, out, spinner, status, results, backend>>

\* a get that builds the patch from the named category alone
StackInvocationGetReturnsOwnCategory(i) ==
    /\ inv[i].pc = "stack_get"
    /\ LET currentStack == CurrentStack([hasStack |-> TRUE, stack |-> backend.stack])
           items == NewItems(CurrentItems(currentStack, inv[i].opts.category),
                             inv[i].opts.set, inv[i].opts.add, inv[i].opts.remove)
       IN  inv' = [inv EXCEPT ![i].currentStack = currentStack,
                              ![i].items = items,
                              ![i].submitted =
                                  StackPatchOnlyCategory(currentStack, inv[i].opts.category, items),
                              ![i].readAt = backend.writes,
                              ![i].pc = "stack_update"]
    /\ UNCHANGED <<pc, cmd, opts, loc, calls, out, spinner, status, results, backend>>

\* the get of invocation i resolved with what the backend stores now: it
\* computes its items and issues the update with the whole stack object
StackInvocationGetReturns(i) ==
    /\ inv[i].pc = "stack_get"
    /\ LET currentStack == CurrentStack([hasStack |-> TRUE, stack |-> backend.stack])
           items == NewItems(CurrentItems(currentStack, inv[i].opts.category),
                             inv[i].opts.set, inv[i].opts.add, inv[i].opts.remove)
       IN  inv' = [inv EXCEPT ![i].currentStack = currentStack,
                              ![i].items = items,
                              ![i].submitted =
                                  StackPatch(currentStack, inv[i].opts.category, items),
                              ![i].readAt = backend.writes,
                              ![i].pc = "stack_update"]
    /\ UNCHANGED <<pc, cmd, opts, loc, calls, out, spinner, status, results, backend>>

\* the get of invocation i rejected
StackInvocationGetThrows(i) ==
    /\ inv[i].pc = "stack_get"
    /\ inv' = [inv EXCEPT ![i].pc = "done", ![i].status = "exit1"]
    /\ UNCHANGED <<pc, cmd, opts, loc, calls, out, spinner, status, results, backend>>

\* the update of invocation i reached the backend, was applied and resolved
StackInvocationUpdateReturns(i) ==
    /\ inv[i].pc = "stack_update"
    /\ backend' = [backend EXCEPT
                      !.stack = ApplyPatch(backend.stack, inv[i].submitted, backend.deepMerge),
                      !.writes = @ + 1]
    /\ inv' = [inv EXCEPT ![i].pc = "done", ![i].status = "returned",
                          ![i].wroteAt = backend.writes + 1]
    /\ UNCHANGED <<pc, cmd, opts, loc, calls, out, spinner, status, results>>

\* the update of invocation i rejected and was not applied
StackInvocationUpdateThrows(i) ==
    /\ inv[i].pc = "stack_update"
    /\ inv' = [inv EXCEPT ![i].pc = "done", ![i].status = "exit1"]
    /\ UNCHANGED <<pc, cmd, opts, loc, calls, out, spinner, status, results, backend>>

NextConcurrent ==
    \/ \E i \in Invocations :
          inv[i].pc = "start" /\ \E o \in ConcurrentOptions : StackInvocationStart(i, o)
    \/ \E i \in Invocations : StackInvocationGetReturns(i)
    \/ \E i \in Invocations : StackInvocationGetThrows(i)
    \/ \E i \in Invocations : StackInvocationUpdateReturns(i)
    \/ \E i \in Invocations : StackInvocationUpdateThrows(i)

\* ------------------------------------------------------------ two concurrent invocations: properties
\* both invocations updated the backend, on different categories, and each
\* got the stack before the other's update was applied
BothUpdatedInterleaved ==
    /\ \A i \in Invocations : inv[i].pc = "done" /\ inv[i].status = "returned"
    /\ inv[1].opts.category # inv[2].opts.category
    /\ \A i \in Invocations : inv[i].readAt = 0

\* the invocation whose update was applied last, and the other one
Later == CHOOSE i \in Invocations : inv[i].wroteAt = 2
Earlier == CHOOSE i \in Invocations : inv[i].wroteAt = 1

\* the list the backend holds for a category ([] when it holds none)
StoredList(c) == IF c \in DOMAIN backend.stack THEN backend.stack[c] ELSE << >>

\* C21 as stated: after two interleaved `tech stack` invocations on
\* different categories both updated, the backend's stack reflects both
\* changes: each category holds the list its invocation computed.
C21_BothChangesKept ==
    BothUpdatedInterleaved =>
        \A i \in Invocations : StoredList(inv[i].opts.category) = inv[i].items

\* C21 amended: after two interleaved `tech stack` invocations on different
\* categories both updated, the last write wins: the later invocation's
\* category holds the list it computed, and the earlier invocation's
\* category holds the list the later invocation had fetched for it before
\* the earlier update, whenever the stack it fetched held that category;
\* when it did not, the earlier change is kept if the backend merges the
\* stack object key by key and dropped if it replaces the stack object.
C21_LastWriteWins ==
    BothUpdatedInterleaved =>
        LET cl == inv[Later].opts.category
            ce == inv[Earlier].opts.category
            fetched == inv[Later].currentStack
        IN  /\ cl \in DOMAIN backend.stack
            /\ StoredList(cl) = inv[Later].items
            /\ IF ce \in DOMAIN fetched
               THEN ce \in DOMAIN backend.stack /\ StoredList(ce) = fetched[ce]
               ELSE IF backend.deepMerge
               THEN ce \in DOMAIN backend.stack /\ StoredList(ce) = inv[Earlier].items
               ELSE ce \notin DOMAIN backend.stack

\* the earlier invocation's change was overwritten by the stale list the
\* later invocation had fetched
C21_Witness ==
    /\ BothUpdatedInterleaved
    /\ inv[Earlier].opts.category \in DOMAIN inv[Later].currentStack
    /\ inv[Earlier].items # inv[Later].currentStack[inv[Earlier].opts.category]
    /\ StoredList(inv[Earlier].opts.category) # inv[Earlier].items

\* ------------------------------------------------------------ specification
\* the tech-info commands
NextTech ==
    \/ ShowTechInfo
    \/ ManageStack
    \/ SetDeployment
    \/ ManageCommands
    \/ SetNotes

\* the vault commands
NextVault ==
    \/ ListVault
    \/ ShowVault
    \/ CreateVault
    \/ UpdateVault
    \/ DeleteVault

Next ==
    \/ NextTech
    \/ NextVault

\* an invocation of a tech-info command
SpecTech == Init /\ [][NextTech]_vars

\* an invocation of a vault command
SpecVault == Init /\ [][NextVault]_vars

\* an invocation of any command
Spec == Init /\ [][Next]_vars

\* two `tech stack` invocations running against one backend
SpecConcurrent == InitConcurrent /\ [][NextConcurrent]_vars

====
